---- MODULE Spec2Model ----
(***************************************************************************)
(* A model of the violation engine of pks: the privacy checker             *)
(* (src/packs/checker/privacy.rs), check_all / update with the             *)
(* reconciliation against the recorded violations, the parallel fold of    *)
(* get_all_violations and the analyzer of unnecessary dependencies         *)
(* (src/packs/checker.rs), and find_dependents (src/packs/dependents.rs).  *)
(*                                                                         *)
(* Strings (constant names, pack names, paths) are sequences of one        *)
(* character strings, so that str::starts_with, format! and                *)
(* Path::strip_prefix are computed on the text as the code computes them.  *)
(***************************************************************************)
EXTENDS Naturals, Sequences, FiniteSets

VARIABLES
    pack_set,          \* configuration.pack_set.packs: a set of Pack records
    all_violations,    \* configuration.pack_set.all_violations (the recorded violations)
    ignore_recorded_violations,  \* configuration.ignore_recorded_violations
    codebase,          \* the references the reference extractor finds in the included files
    checked_reference, \* the reference of the last privacy check
    check_result,      \* what that check returned (NoCall before the first)
    checked_violation, \* the violation of the last privacy is_strict_mode_violation call
    strict_mode_result,  \* what that call returned (NoCall before the first)
    absolute_paths,    \* the working set of the last check_all: its files that are included
    found_violations,  \* FoundViolations of the last check_all (NoFound when none was built)
    check_all_result,  \* what the last check_all returned: Err or a CheckAllResult
    update_result,     \* what the last update returned
    runs,              \* number of check_all runs since the configuration was loaded
    remaining_checkers,  \* get_all_violations: the checkers no folder has taken yet
    partial,           \* get_all_violations: the accumulator of each worker and its status
    try_reduce_result, \* get_all_violations: what try_reduce returned (NoCall before)
    reference_list,    \* the references of the included files, in the order of the Vec
    unnecessary_dependencies,  \* what get_unnecessary_dependencies returned (NoCall before)
    written_packs,     \* the packs remove_unnecessary_dependencies wrote to disk (NoCall before)
    pack_list,         \* pack_set.packs in its iteration order, with the package_todo of each
    target_pack_name,  \* the pack_name find_dependents was asked about
    dependents         \* what find_dependents returned (NoCall before)

\* the configuration as loaded and the references of the project
configVars == <<pack_set, all_violations, ignore_recorded_violations, codebase>>

\* one call of the privacy checker
privacyVars == <<checked_reference, check_result, checked_violation, strict_mode_result>>

\* check_all and update
engineVars == <<absolute_paths, found_violations, check_all_result, update_result, runs>>

\* the fold and the reduction of get_all_violations
parallelVars == <<remaining_checkers, partial, try_reduce_result>>

\* get_unnecessary_dependencies
analyzerVars == <<reference_list, unnecessary_dependencies, written_packs>>

\* find_dependents
dependentsVars == <<pack_list, target_pack_name, dependents>>

vars == <<configVars, privacyVars, engineVars, parallelVars, analyzerVars, dependentsVars>>

-----------------------------------------------------------------------------
(* Bounds of the model *)

\* most entries in private_constants of the defining pack
MaxPrivateConstants == 1

\* most entries in ignored_private_constants of the defining pack
MaxIgnoredConstants == 1

\* most references in the codebase
MaxReferences == 2

\* most recorded violations in the configuration as loaded
MaxRecorded == 2

\* most check_all runs on one loaded configuration
MaxRuns == 2

\* most workers that fold the checkers of get_all_violations
MaxWorkers == 2

\* most references in the list get_unnecessary_dependencies counts
MaxReferenceList == 3

\* most violation groups (constants) a package_todo holds against one defining pack
MaxGroups == 2

-----------------------------------------------------------------------------
(* Text *)

\* Option::None of a string or a path (no name and no path is empty)
None == <<>>

Slash == <<"/">>

\* str::starts_with
StartsWith(s, prefix) ==
    /\ Len(prefix) <= Len(s)
    /\ SubSeq(s, 1, Len(prefix)) = prefix

\* The separator of namespaces in a constant name
Colons == <<":", ":">>

Bar == Colons \o <<"B", "a", "r">>
BarChild == <<"B", "a", "r", "C", "h", "i", "l", "d">>
BarBarChild == Bar \o Colons \o BarChild
BarbieBarChild == Colons \o <<"B", "a", "r", "b", "i", "e">> \o Colons \o BarChild
Taco == Colons \o <<"T", "a", "c", "o">>
Foo == Colons \o <<"F", "o", "o">>

ConstantNames == {Bar, BarBarChild, BarbieBarChild, Taco}

PacksFoo == <<"p", "a", "c", "k", "s", "/", "f", "o", "o">>
PacksBar == <<"p", "a", "c", "k", "s", "/", "b", "a", "r">>
PacksMissing == <<"p", "a", "c", "k", "s", "/", "g", "o", "n", "e">>

App == <<"a", "p", "p">>
AppPublic == App \o Slash \o <<"p", "u", "b", "l", "i", "c">>
AppPublicApi == AppPublic \o <<"_", "a", "p", "i">>
AppApi == App \o Slash \o <<"a", "p", "i">>
AppServices == App \o Slash \o <<"s", "e", "r", "v", "i", "c", "e", "s">>
BarRb == <<"b", "a", "r", ".", "r", "b">>
FooRb == <<"f", "o", "o", ".", "r", "b">>
XRb == <<"x", ".", "r", "b">>

BarServiceFile == PacksBar \o Slash \o AppServices \o Slash \o BarRb
BarPublicFile == PacksBar \o Slash \o AppPublic \o Slash \o BarRb
BarApiFile == PacksBar \o Slash \o AppApi \o Slash \o BarRb
BarPublicApiFile == PacksBar \o Slash \o AppPublicApi \o Slash \o XRb
FooServiceFile == PacksFoo \o Slash \o AppServices \o Slash \o FooRb
FooPublicFile == PacksFoo \o Slash \o AppPublic \o Slash \o FooRb

-----------------------------------------------------------------------------
(* Packs *)

CheckerSetting == {"False", "True", "Strict"}

is_false(setting) == setting = "False"

is_strict(setting) == setting = "Strict"

Pack(name, enforce_dependencies, dependencies, enforce_privacy, ignored, private, folder) ==
    [name |-> name,
     relative_path |-> name,
     enforce_dependencies |-> enforce_dependencies,
     dependencies |-> dependencies,
     enforce_privacy |-> enforce_privacy,
     ignored_private_constants |-> ignored,
     private_constants |-> private,
     public_folder |-> folder]

\* Pack::public_folder(): the configured folder, or <relative_path>/app/public
public_folder(pack) ==
    IF pack.public_folder = None
    THEN pack.relative_path \o Slash \o AppPublic
    ELSE pack.public_folder

HasPack(packs, name) == \E p \in packs : p.name = name

\* PackSet::for_pack: the pack of that name; the callers test HasPack first
\* (the Err of for_pack)
for_pack(packs, name) == CHOOSE p \in packs : p.name = name

-----------------------------------------------------------------------------
(* References, violations *)

SourceLocation(line, column) == [line |-> line, column |-> column]

Reference(constant, defining_pack, referencing_pack, referencing_file, defining_file, line) ==
    [constant_name |-> constant,
     defining_pack_name |-> defining_pack,
     referencing_pack_name |-> referencing_pack,
     relative_referencing_file |-> referencing_file,
     relative_defining_file |-> defining_file,
     source_location |-> SourceLocation(line, 1)]

\* The struct: the five fields checker.rs lists and the strict field that the
\* checkers initialise with them (privacy.rs line 105); PartialEq, Eq and Hash
\* are derived, so two identifiers are equal when every field is
ViolationIdentifier(violation_type, strict, file, constant, referencing_pack, defining_pack) ==
    [violation_type |-> violation_type,
     strict |-> strict,
     file |-> file,
     constant_name |-> constant,
     referencing_pack_name |-> referencing_pack,
     defining_pack_name |-> defining_pack]

\* A violation: the message and the identifier; equality is derived from both
Violation(message, identifier) == [message |-> message, identifier |-> identifier]

\* Result<Option<Violation>>
Err(error) == [kind |-> "Err", error |-> error]
OkNone == [kind |-> "None"]
OkSome(violation) == [kind |-> "Some", violation |-> violation]

NotFound == "NotFound"

-----------------------------------------------------------------------------
(* The privacy checker *)

PrivacyType == "privacy"

\* is_ignored where an entry of private_constants overrides the ignore list
is_ignored_unless_private(constant_name, defining_pack) ==
    /\ constant_name \in defining_pack.ignored_private_constants
    /\ constant_name \notin defining_pack.private_constants

\* The constant is in ignored_private_constants of the defining pack
is_ignored(constant_name, defining_pack) ==
    constant_name \in defining_pack.ignored_private_constants

\* is_self_reference that never holds: the test left out
is_self_reference_never(referencing_pack_name, defining_pack_name) == FALSE

\* The reference is from the defining pack itself
is_self_reference(referencing_pack_name, defining_pack_name) ==
    referencing_pack_name = defining_pack_name

\* is_public consulted only when the pack lists no private constants
is_public_unless_listed(relative_defining_file, defining_pack) ==
    /\ defining_pack.private_constants = {}
    /\ StartsWith(relative_defining_file, public_folder(defining_pack))

\* The defining file is in the public folder: a prefix test on the text
is_public(relative_defining_file, defining_pack) ==
    StartsWith(relative_defining_file, public_folder(defining_pack))

\* The constant is an entry of private_constants
constant_is_private(constant_name, private_constants) ==
    constant_name \in private_constants

\* The constant is in the namespace of an entry: it starts with "<entry>::"
constant_is_in_private_namespace(constant_name, private_constants) ==
    \E private_constant \in private_constants :
        StartsWith(constant_name, private_constant \o Colons)

\* The arguments of the format! of the message, in its order
PrivacyMessage(reference, defining_pack_name, referencing_pack_name) ==
    <<reference.relative_referencing_file,
      reference.source_location.line,
      reference.source_location.column,
      "Privacy violation",
      reference.constant_name,
      defining_pack_name,
      referencing_pack_name>>

\* The value line 105 computes for the strict field of the identifier
PrivacyStrict(defining_pack) == is_strict(defining_pack.enforce_privacy)

PrivacyViolation(reference, referencing_pack, defining_pack) ==
    Violation(
        PrivacyMessage(reference, defining_pack.name, referencing_pack.name),
        ViolationIdentifier(PrivacyType,
                            PrivacyStrict(defining_pack),
                            reference.relative_referencing_file,
                            reference.constant_name,
                            referencing_pack.name,
                            defining_pack.name))

\* the test of the enforcement that takes the strict setting for the off one
privacy_is_off_when_strict(defining_pack) == is_strict(defining_pack.enforce_privacy)

\* defining_pack.enforce_privacy().is_false()
privacy_is_off(defining_pack) == is_false(defining_pack.enforce_privacy)

\* Checker::check of privacy.rs, from the lookup of the defining pack on
PrivacyCheckResolved(reference, referencing_pack, defining_pack) ==
    IF privacy_is_off(defining_pack) THEN OkNone
    ELSE IF is_ignored(reference.constant_name, defining_pack) THEN OkNone
    ELSE IF reference.relative_defining_file = None THEN OkNone
    ELSE IF is_self_reference(referencing_pack.name, defining_pack.name) THEN OkNone
    ELSE IF is_public(reference.relative_defining_file, defining_pack) THEN OkNone
    ELSE IF /\ defining_pack.private_constants # {}
            /\ ~constant_is_private(reference.constant_name, defining_pack.private_constants)
            /\ ~constant_is_in_private_namespace(reference.constant_name,
                                                 defining_pack.private_constants)
         THEN OkNone
    ELSE OkSome(PrivacyViolation(reference, referencing_pack, defining_pack))

\* the check that passes over a defining pack it cannot find
PrivacyCheck_skips_missing(reference, packs) ==
    IF ~HasPack(packs, reference.referencing_pack_name) THEN Err(NotFound)
    ELSE IF reference.defining_pack_name = None THEN OkNone
    ELSE IF ~HasPack(packs, reference.defining_pack_name) THEN OkNone
    ELSE PrivacyCheckResolved(reference,
                              for_pack(packs, reference.referencing_pack_name),
                              for_pack(packs, reference.defining_pack_name))

\* Checker::check of privacy.rs
PrivacyCheck(reference, packs) ==
    IF ~HasPack(packs, reference.referencing_pack_name) THEN Err(NotFound)
    ELSE IF reference.defining_pack_name = None THEN OkNone
    ELSE IF ~HasPack(packs, reference.defining_pack_name) THEN Err(NotFound)
    ELSE PrivacyCheckResolved(reference,
                              for_pack(packs, reference.referencing_pack_name),
                              for_pack(packs, reference.defining_pack_name))

\* is_strict_mode_violation that takes every enforcing pack for a strict one
PrivacyIsStrictModeViolation_enforced(violation, packs) ==
    IF ~HasPack(packs, violation.defining_pack_name) THEN Err(NotFound)
    ELSE [kind |-> "Ok",
          value |-> ~is_false(for_pack(packs, violation.defining_pack_name).enforce_privacy)]

\* Checker::is_strict_mode_violation of privacy.rs: Result<bool>
PrivacyIsStrictModeViolation(violation, packs) ==
    IF ~HasPack(packs, violation.defining_pack_name) THEN Err(NotFound)
    ELSE [kind |-> "Ok", value |-> is_strict(for_pack(packs, violation.defining_pack_name).enforce_privacy)]

-----------------------------------------------------------------------------
(* The privacy checker applied to one reference *)

NoCall == [kind |-> "NoCall"]

Files == {BarServiceFile, BarPublicFile, BarApiFile, BarPublicApiFile,
          FooServiceFile, FooPublicFile}

SubsetsUpTo(S, n) == {T \in SUBSET S : Cardinality(T) <= n}

\* default_referencing_pack of the tests: packs/foo, nothing configured
FooPack == Pack(PacksFoo, "False", {}, "True", {}, {}, None)

\* The defining pack of the tests, packs/bar, in every privacy configuration
BarPacks ==
    {Pack(PacksBar, "False", {}, enforce_privacy, ignored, private, folder) :
        enforce_privacy \in CheckerSetting,
        ignored \in SubsetsUpTo(ConstantNames, MaxIgnoredConstants),
        private \in SubsetsUpTo(ConstantNames, MaxPrivateConstants),
        folder \in {None, PacksBar \o Slash \o AppApi}}

\* The file a reference from that pack is in
ReferencingFileOf(pack_name) == pack_name \o Slash \o AppServices \o Slash \o FooRb

\* The defining files the extractor can resolve for that defining pack: none when
\* the pack is unresolved, else none or a file below the pack
DefiningFilesOf(pack_name) ==
    IF pack_name = None THEN {None}
    ELSE {None} \cup {f \in Files : StartsWith(f, pack_name \o Slash)}

PrivacyReferences ==
    {Reference(constant, defining[1], referencing,
               ReferencingFileOf(referencing), defining[2], 3) :
        constant \in ConstantNames,
        referencing \in {PacksFoo, PacksBar, PacksMissing},
        defining \in {d \in {None, PacksFoo, PacksBar, PacksMissing} \X ({None} \cup Files) :
                        d[2] \in DefiningFilesOf(d[1])}}

NoFound == [kind |-> "NoFound"]

\* no call of the privacy checker was made
PrivacyIdle ==
    /\ checked_reference = Reference(None, None, None, None, None, 0)
    /\ check_result = NoCall
    /\ checked_violation = NoCall
    /\ strict_mode_result = NoCall

\* neither check_all nor update has run
EngineIdle ==
    /\ absolute_paths = {}
    /\ found_violations = NoFound
    /\ check_all_result = NoCall
    /\ update_result = NoCall
    /\ runs = 0

\* The violations is_strict_mode_violation is asked about: recorded for a reference
\* of packs/foo to a pack that is, or is no longer, in the pack set
StrictModeQueries ==
    {ViolationIdentifier(PrivacyType, strict, ReferencingFileOf(PacksFoo), constant,
                         PacksFoo, defining) :
        strict \in BOOLEAN, constant \in ConstantNames,
        defining \in {PacksFoo, PacksBar, PacksMissing}}

\* packs/foo with packs/bar in every privacy configuration, and packs/foo alone
\* (the configuration of test_defining_pack_not_found)
\* get_all_violations is not running
ParallelIdle ==
    /\ remaining_checkers = {}
    /\ partial = <<>>
    /\ try_reduce_result = NoCall

\* neither get_unnecessary_dependencies nor find_dependents was called
QueriesIdle ==
    /\ reference_list = <<>>
    /\ unnecessary_dependencies = NoCall
    /\ written_packs = NoCall
    /\ pack_list = <<>>
    /\ target_pack_name = None
    /\ dependents = NoCall

PrivacyInit ==
    /\ pack_set \in {{FooPack, bar} : bar \in BarPacks} \cup {{FooPack}}
    /\ all_violations = {}
    /\ ignore_recorded_violations = FALSE
    /\ codebase = {}
    /\ PrivacyIdle
    /\ EngineIdle
    /\ ParallelIdle
    /\ QueriesIdle

\* privacy::Checker.check(reference, configuration), once for a configuration
CheckReference ==
    \E reference \in PrivacyReferences :
        /\ check_result = NoCall
        /\ strict_mode_result = NoCall
        /\ checked_reference' = reference
        /\ check_result' = PrivacyCheck(reference, pack_set)
        /\ UNCHANGED <<configVars, engineVars, checked_violation, strict_mode_result,
                       parallelVars, analyzerVars, dependentsVars>>

\* privacy::Checker.is_strict_mode_violation(violation, configuration), once for a
\* configuration
CheckStrictMode ==
    \E violation \in StrictModeQueries :
        /\ check_result = NoCall
        /\ strict_mode_result = NoCall
        /\ checked_violation' = violation
        /\ strict_mode_result' = PrivacyIsStrictModeViolation(violation, pack_set)
        /\ UNCHANGED <<configVars, engineVars, checked_reference, check_result,
                       parallelVars, analyzerVars, dependentsVars>>

PrivacyNext == CheckReference \/ CheckStrictMode

PrivacySpec == PrivacyInit /\ [][PrivacyNext]_vars

-----------------------------------------------------------------------------
(* The other checkers that get_checkers registers *)

DependencyType == "dependency"

DependencyMessage(reference, defining_pack_name, referencing_pack_name) ==
    <<reference.relative_referencing_file,
      reference.source_location.line,
      reference.source_location.column,
      "Dependency violation",
      reference.constant_name,
      defining_pack_name,
      referencing_pack_name>>

\* dependency::Checker.check: a reference to another pack that the referencing pack,
\* enforcing dependencies, does not declare
DependencyCheck(reference, packs) ==
    IF ~HasPack(packs, reference.referencing_pack_name) THEN Err(NotFound)
    ELSE IF reference.defining_pack_name = None THEN OkNone
    ELSE IF ~HasPack(packs, reference.defining_pack_name) THEN Err(NotFound)
    ELSE IF reference.referencing_pack_name = reference.defining_pack_name THEN OkNone
    ELSE IF is_false(for_pack(packs, reference.referencing_pack_name).enforce_dependencies)
         THEN OkNone
    ELSE IF reference.defining_pack_name
                \in for_pack(packs, reference.referencing_pack_name).dependencies
         THEN OkNone
    ELSE OkSome(Violation(
            DependencyMessage(reference, reference.defining_pack_name,
                              reference.referencing_pack_name),
            ViolationIdentifier(DependencyType,
                                is_strict(for_pack(packs, reference.referencing_pack_name)
                                              .enforce_dependencies),
                                reference.relative_referencing_file,
                                reference.constant_name,
                                reference.referencing_pack_name,
                                reference.defining_pack_name)))

\* dependency::Checker.is_strict_mode_violation: the rule is the referencing pack's
DependencyIsStrictModeViolation(violation, packs) ==
    IF ~HasPack(packs, violation.referencing_pack_name) THEN Err(NotFound)
    ELSE [kind |-> "Ok",
          value |-> is_strict(for_pack(packs, violation.referencing_pack_name).enforce_dependencies)]

\* visibility, architecture and folder_visibility: no pack of the model configures
\* these rules, so their check finds nothing
UnconfiguredCheck(reference, packs) ==
    IF ~HasPack(packs, reference.referencing_pack_name) THEN Err(NotFound)
    ELSE IF reference.defining_pack_name = None THEN OkNone
    ELSE IF ~HasPack(packs, reference.defining_pack_name) THEN Err(NotFound)
    ELSE OkNone

\* and no pack enforces them strictly
UnconfiguredIsStrictModeViolation(violation, packs) ==
    IF ~HasPack(packs, violation.defining_pack_name) THEN Err(NotFound)
    ELSE [kind |-> "Ok", value |-> FALSE]

-----------------------------------------------------------------------------
(* The checker interface *)

\* get_checkers: the checkers in the order of the vec!
get_checkers ==
    <<"dependency::Checker", "privacy::Checker", "visibility::Checker",
      "architecture::Checker", "folder_visibility::Checker">>

\* CheckerInterface::violation_type
violation_type(checker) ==
    CASE checker = "dependency::Checker" -> DependencyType
      [] checker = "privacy::Checker" -> PrivacyType
      [] checker = "visibility::Checker" -> "visibility"
      [] checker = "architecture::Checker" -> "architecture"
      [] checker = "folder_visibility::Checker" -> "folder_visibility"

\* CheckerInterface::check
check(checker, reference, packs) ==
    CASE checker = "dependency::Checker" -> DependencyCheck(reference, packs)
      [] checker = "privacy::Checker" -> PrivacyCheck(reference, packs)
      [] OTHER -> UnconfiguredCheck(reference, packs)

\* CheckerInterface::is_strict_mode_violation
is_strict_mode_violation(checker, violation, packs) ==
    CASE checker = "dependency::Checker" -> DependencyIsStrictModeViolation(violation, packs)
      [] checker = "privacy::Checker" -> PrivacyIsStrictModeViolation(violation, packs)
      [] OTHER -> UnconfiguredIsStrictModeViolation(violation, packs)

Range(seq) == {seq[i] : i \in 1..Len(seq)}

-----------------------------------------------------------------------------
(* Paths of the project *)

\* configuration.absolute_root
absolute_root == <<"/", "r", "o", "o", "t">>

\* The absolute path of a file of the project
Absolute(relative_file) == absolute_root \o Slash \o relative_file

\* strip_prefix that leaves the separator after the base in place
strip_prefix_keeps_separator(path, base) ==
    SubSeq(path, Len(base) + 1, Len(path))

\* Path::strip_prefix(base).unwrap().to_str().unwrap(): the path below base; every
\* path of the working set is an included file, below the root
strip_prefix(path, base) ==
    IF path = base THEN <<>>
    ELSE SubSeq(path, Len(base) + 2, Len(path))

VendorFile == <<"v", "e", "n", "d", "o", "r", "/", "x", ".", "r", "b">>

\* configuration.included_files
included_files == {Absolute(FooServiceFile), Absolute(BarServiceFile)}

\* The files a caller can ask check_all to check
InputFiles == included_files \cup {Absolute(VendorFile)}

\* Configuration::intersect_files
intersect_files(files) == files \cap included_files

\* get_all_references: the references in the files of these paths
get_all_references(references, paths) ==
    {r \in references : Absolute(r.relative_referencing_file) \in paths}

-----------------------------------------------------------------------------
(* check_all *)

UnroutableViolationType == "UnroutableViolationType"

\* The results of every checker on every reference
AllChecks(references, packs) ==
    {check(c, r, packs) : c \in Range(get_checkers), r \in references}

\* get_all_violations dropping the checks that fail instead of returning their error
get_all_violations_drops_errors(references, packs, paths) ==
    LET results == AllChecks(get_all_references(references, paths), packs)
    IN  [kind |-> "Ok",
         value |-> {result.violation : result \in {x \in results : x.kind = "Some"}}]

\* get_all_violations: the violations of every checker on every reference of the
\* paths, or the error of a check that fails
get_all_violations(references, packs, paths) ==
    LET results == AllChecks(get_all_references(references, paths), packs)
    IN  IF \E result \in results : result.kind = "Err"
        THEN Err(NotFound)
        ELSE [kind |-> "Ok",
              value |-> {result.violation : result \in {x \in results : x.kind = "Some"}}]

\* build_reportable_violations with the test of the flag inverted
build_reportable_violations_flag_inverted(found, recorded_violations, ignore_recorded) ==
    IF ~ignore_recorded
    THEN found.violations
    ELSE {v \in found.violations : v.identifier \notin recorded_violations}

\* CheckAllBuilder::build_reportable_violations
build_reportable_violations(found, recorded_violations, ignore_recorded) ==
    IF ignore_recorded
    THEN found.violations
    ELSE {v \in found.violations : v.identifier \notin recorded_violations}

\* build_stale_violations without the test against the found violations
build_stale_violations_all_checked(found, recorded_violations) ==
    LET relative_files == {strip_prefix(p, absolute_root) : p \in found.absolute_paths}
    IN  {v_identifier \in recorded_violations : v_identifier.file \in relative_files}

\* CheckAllBuilder::build_stale_violations
build_stale_violations(found, recorded_violations) ==
    LET found_violation_identifiers == {v.identifier : v \in found.violations}
        relative_files == {strip_prefix(p, absolute_root) : p \in found.absolute_paths}
    IN  {v_identifier \in recorded_violations :
            /\ v_identifier.file \in relative_files
            /\ v_identifier \notin found_violation_identifiers}

\* indexed_checkers of build_strict_mode_violations: the checkers of that type
indexed_checkers(type) == {c \in Range(get_checkers) : violation_type(c) = type}

\* The closure skipping a recorded violation that no checker is registered for
StrictModeOf_skips_unrouted(violation, packs) ==
    IF indexed_checkers(violation.violation_type) = {}
    THEN [kind |-> "Ok", value |-> FALSE]
    ELSE is_strict_mode_violation(
            CHOOSE c \in indexed_checkers(violation.violation_type) : TRUE,
            violation, packs)

\* What the closure of the try_fold does with one recorded violation
StrictModeOf(violation, packs) ==
    IF indexed_checkers(violation.violation_type) = {}
    THEN Err(UnroutableViolationType)
    ELSE is_strict_mode_violation(
            CHOOSE c \in indexed_checkers(violation.violation_type) : TRUE,
            violation, packs)

\* The errors build_strict_mode_violations can end with: the first the fold meets,
\* in the iteration order of the hash set
StrictModeErrors(recorded_violations, packs) ==
    {StrictModeOf(v, packs).error :
        v \in {x \in recorded_violations : StrictModeOf(x, packs).kind = "Err"}}

\* CheckAllBuilder::build_strict_mode_violations, when no recorded violation fails
build_strict_mode_violations(recorded_violations, packs) ==
    {v \in recorded_violations : StrictModeOf(v, packs).value}

\* build that takes ignore_recorded_violations for leaving the recorded violations
\* out of the stale ones too
CheckAllResult_ignoring_skips_stale(found, recorded_violations, ignore_recorded, packs) ==
    [kind |-> "Ok",
     reportable_violations |->
        build_reportable_violations(found, recorded_violations, ignore_recorded),
     stale_violations |->
        IF ignore_recorded THEN {} ELSE build_stale_violations(found, recorded_violations),
     strict_mode_violations |-> build_strict_mode_violations(recorded_violations, packs)]

\* CheckAllBuilder::build
CheckAllResult(found, recorded_violations, ignore_recorded, packs) ==
    [kind |-> "Ok",
     reportable_violations |->
        build_reportable_violations(found, recorded_violations, ignore_recorded),
     stale_violations |-> build_stale_violations(found, recorded_violations),
     strict_mode_violations |-> build_strict_mode_violations(recorded_violations, packs)]

\* has_violations that leaves the strict-mode violations out
has_violations_without_strict(result) ==
    \/ result.reportable_violations # {}
    \/ result.stale_violations # {}

\* CheckAllResult::has_violations
has_violations(result) ==
    \/ result.reportable_violations # {}
    \/ result.stale_violations # {}
    \/ result.strict_mode_violations # {}

FoundViolations(paths, violations) ==
    [kind |-> "Found", absolute_paths |-> paths, violations |-> violations]

\* check_all(configuration, files)
CheckAll(files) ==
    LET paths == intersect_files(files)
        violations == get_all_violations(codebase, pack_set, paths)
        found == FoundViolations(paths, violations.value)
    IN  /\ runs < MaxRuns
        /\ runs' = runs + 1
        /\ absolute_paths' = paths
        /\ IF violations.kind = "Err"
           THEN /\ found_violations' = NoFound
                /\ check_all_result' = violations
           ELSE /\ found_violations' = found
                /\ IF StrictModeErrors(all_violations, pack_set) # {}
                   THEN \E error \in StrictModeErrors(all_violations, pack_set) :
                            check_all_result' = Err(error)
                   ELSE check_all_result' =
                            CheckAllResult(found, all_violations,
                                           ignore_recorded_violations, pack_set)
        /\ UNCHANGED <<configVars, privacyVars, update_result,
                       parallelVars, analyzerVars, dependentsVars>>

\* package_todo::write_violations_to_disk and the next load of the configuration:
\* the recorded violations are the identifiers of the violations written
write_violations_to_disk(violations) == {v.identifier : v \in violations}

\* update(configuration): the recorded violations are computed over the included
\* files and written; the configuration is loaded anew afterwards
Update ==
    LET violations == get_all_violations(codebase, pack_set, included_files)
    IN  /\ IF violations.kind = "Err"
           THEN /\ update_result' = violations
                /\ UNCHANGED all_violations
           ELSE /\ update_result' = [kind |-> "Ok"]
                /\ all_violations' = write_violations_to_disk(violations.value)
        /\ runs' = 0
        /\ UNCHANGED <<pack_set, ignore_recorded_violations, codebase, privacyVars,
                       absolute_paths, found_violations, check_all_result,
                       parallelVars, analyzerVars, dependentsVars>>

-----------------------------------------------------------------------------
(* The configurations check_all and update run on *)

FooBarLine3 == Reference(Bar, PacksBar, PacksFoo, FooServiceFile, BarServiceFile, 3)
FooBarLine7 == Reference(Bar, PacksBar, PacksFoo, FooServiceFile, BarServiceFile, 7)
BarFooPrivate == Reference(Foo, PacksFoo, PacksBar, BarServiceFile, FooServiceFile, 5)
FooMissing == Reference(Taco, PacksMissing, PacksFoo, FooServiceFile, None, 3)

\* The references the files of the project can hold
ReferenceUniverse ==
    {FooBarLine3, FooBarLine7, BarFooPrivate, FooMissing}

\* The violations a package_todo file can record when the configuration is loaded:
\* they were recorded while no pack concerned was strict
RecordedUniverse ==
    {ViolationIdentifier(PrivacyType, FALSE, FooServiceFile, Bar, PacksFoo, PacksBar),
     ViolationIdentifier(PrivacyType, FALSE, BarServiceFile, Foo, PacksBar, PacksFoo),
     ViolationIdentifier(DependencyType, FALSE, FooServiceFile, Bar, PacksFoo, PacksBar),
     ViolationIdentifier("layer", FALSE, FooServiceFile, Bar, PacksFoo, PacksBar),
     ViolationIdentifier(PrivacyType, FALSE, FooServiceFile, Taco, PacksFoo, PacksMissing)}

\* packs/foo and packs/bar in the settings the reconciliation depends on
ConfiguredPackSets ==
    {{Pack(PacksFoo, enforce_dependencies, {}, "True", {}, {}, None),
      Pack(PacksBar, "False", {}, enforce_privacy, {}, {}, None)} :
        enforce_dependencies \in {"False", "Strict"}, enforce_privacy \in CheckerSetting}

Init ==
    /\ pack_set \in ConfiguredPackSets
    /\ all_violations \in SubsetsUpTo(RecordedUniverse, MaxRecorded)
    /\ ignore_recorded_violations \in BOOLEAN
    /\ codebase \in SubsetsUpTo(ReferenceUniverse, MaxReferences)
    /\ PrivacyIdle
    /\ EngineIdle
    /\ ParallelIdle
    /\ QueriesIdle

Next ==
    \/ \E files \in SUBSET InputFiles : CheckAll(files)
    \/ Update

Spec == Init /\ [][Next]_vars

-----------------------------------------------------------------------------
(* Claims about check_all and update, under Spec *)

\* check_all has run on the configuration as it is loaded now
Ran == runs > 0

\* check_all has run and returned a CheckAllResult
Returned == Ran /\ check_all_result.kind = "Ok"

FoundIdentifiers == {v.identifier : v \in found_violations.violations}

\* C1: without ignore_recorded_violations a found violation is reportable exactly
\* when its identifier is not recorded, whatever its message; with the flag every
\* found violation is reportable.
C1_Reportable ==
    Returned =>
        /\ check_all_result.reportable_violations \subseteq found_violations.violations
        /\ ignore_recorded_violations =>
                check_all_result.reportable_violations = found_violations.violations
        /\ ~ignore_recorded_violations =>
                \A v \in found_violations.violations :
                    v \in check_all_result.reportable_violations
                        <=> v.identifier \notin all_violations

\* Two found violations of one recorded identifier with different messages are
\* not reportable, while another found violation is
C1_Witness ==
    /\ Returned
    /\ ~ignore_recorded_violations
    /\ \E v, w \in found_violations.violations :
            /\ v.message # w.message
            /\ v.identifier = w.identifier
            /\ v.identifier \in all_violations
            /\ v \notin check_all_result.reportable_violations
            /\ w \notin check_all_result.reportable_violations
    /\ check_all_result.reportable_violations # {}

\* C2: a recorded violation is stale exactly when its file, made absolute, is in
\* the working set and no found violation has its identifier; one whose file is
\* outside the working set is never stale.
C2_Stale ==
    Returned =>
        /\ check_all_result.stale_violations \subseteq all_violations
        /\ \A recorded \in all_violations :
                recorded \in check_all_result.stale_violations
                    <=> /\ Absolute(recorded.file) \in absolute_paths
                        /\ recorded \notin FoundIdentifiers

\* One unfound recorded violation of a checked file is stale, another of a file
\* that was not checked is not, and a found one of a checked file is not
C2_Witness ==
    /\ Returned
    /\ \E stale, unchecked \in all_violations :
            /\ Absolute(stale.file) \in absolute_paths
            /\ stale \in check_all_result.stale_violations
            /\ Absolute(unchecked.file) \notin absolute_paths
            /\ unchecked \notin FoundIdentifiers
            /\ unchecked \notin check_all_result.stale_violations

\* The pack whose rule a recorded violation of a configured checker breaks is strict
OwnerIsStrict(recorded) ==
    \/ /\ recorded.violation_type = PrivacyType
       /\ is_strict(for_pack(pack_set, recorded.defining_pack_name).enforce_privacy)
    \/ /\ recorded.violation_type = DependencyType
       /\ is_strict(for_pack(pack_set, recorded.referencing_pack_name).enforce_dependencies)

\* C3: the strict-mode violations are the recorded violations that the checker of
\* their violation_type calls strict, checked file or not, stale or not; a privacy
\* one is strict exactly when its defining pack has enforce_privacy Strict.
C3_StrictMode ==
    Returned =>
        /\ check_all_result.strict_mode_violations \subseteq all_violations
        /\ \A recorded \in all_violations :
                /\ recorded \in check_all_result.strict_mode_violations
                    <=> \E c \in Range(get_checkers) :
                            /\ violation_type(c) = recorded.violation_type
                            /\ is_strict_mode_violation(c, recorded, pack_set).value
                /\ recorded.violation_type = PrivacyType =>
                    (recorded \in check_all_result.strict_mode_violations
                        <=> for_pack(pack_set, recorded.defining_pack_name).enforce_privacy
                                = "Strict")

\* A strict privacy violation of a file that was not checked, so not stale, beside
\* a recorded dependency violation of the same packs that is not strict
C3_Witness ==
    /\ Returned
    /\ \E strict, other \in all_violations :
            /\ strict.violation_type = PrivacyType
            /\ Absolute(strict.file) \notin absolute_paths
            /\ strict \notin check_all_result.stale_violations
            /\ strict \in check_all_result.strict_mode_violations
            /\ other.violation_type = DependencyType
            /\ other \notin check_all_result.strict_mode_violations

Unroutable(recorded) ==
    \A c \in Range(get_checkers) : violation_type(c) # recorded.violation_type

\* C4: with a recorded violation whose violation_type no checker has, check_all
\* returns an error and no CheckAllResult, whatever the files, the found
\* violations and ignore_recorded_violations are.
C4_UnroutableIsFatal ==
    (Ran /\ \E recorded \in all_violations : Unroutable(recorded))
        => check_all_result.kind = "Err"

\* The run found a violation that would have been reportable
C4_Witness ==
    /\ Ran
    /\ \E recorded \in all_violations : Unroutable(recorded)
    /\ found_violations # NoFound
    /\ found_violations.violations # {}
    /\ ignore_recorded_violations
    /\ check_all_result = Err(UnroutableViolationType)

\* update has written the recorded violations of this codebase
UpToDate == update_result.kind = "Ok"

\* C5 as claimed: with up-to-date recorded violations every check_all run has no
\* violations, strict packs included (read with ignore_recorded_violations not set,
\* the reading that favours the claim).
C5_Idempotent ==
    (UpToDate /\ Ran /\ ~ignore_recorded_violations) =>
        /\ check_all_result.kind = "Ok"
        /\ ~has_violations(check_all_result)

\* C5 as the code has it: with up-to-date recorded violations a check_all run has
\* nothing stale, reports nothing unless ignore_recorded_violations is set, and has
\* violations exactly when the flag is set and a violation is found, or a recorded
\* violation is against a strict pack.
C5_IdempotentUnlessStrict ==
    (UpToDate /\ Ran) =>
        /\ check_all_result.kind = "Ok"
        /\ check_all_result.stale_violations = {}
        /\ ~ignore_recorded_violations => check_all_result.reportable_violations = {}
        /\ has_violations(check_all_result)
            <=> \/ ignore_recorded_violations /\ found_violations.violations # {}
                \/ \E recorded \in all_violations : OwnerIsStrict(recorded)

\* The second run on recorded violations that update wrote, none strict
C5_Witness ==
    /\ UpToDate
    /\ ~ignore_recorded_violations
    /\ runs = 2
    /\ all_violations # {}
    /\ found_violations.violations # {}
    /\ check_all_result.kind = "Ok"
    /\ ~has_violations(check_all_result)

\* A check of some checker on a reference of these paths fails
SomeCheckFails(paths) ==
    \E c \in Range(get_checkers), r \in get_all_references(codebase, paths) :
        check(c, r, pack_set).kind = "Err"

\* C6: when a check fails, check_all returns an error and builds nothing from the
\* violations found, and update returns an error and writes nothing.
C6_CheckFailureAborts ==
    [][/\ (runs' = runs + 1 /\ SomeCheckFails(absolute_paths'))
            => (check_all_result'.kind = "Err" /\ found_violations' = NoFound)
       /\ (runs' = 0 /\ SomeCheckFails(included_files))
            => (update_result'.kind = "Err" /\ all_violations' = all_violations)]_vars

\* Both have failed on a codebase where another reference breaks a rule
C6_Witness ==
    /\ Ran
    /\ SomeCheckFails(absolute_paths)
    /\ \E c \in Range(get_checkers), r \in get_all_references(codebase, absolute_paths) :
            check(c, r, pack_set).kind = "Some"
    /\ check_all_result.kind = "Err"
    /\ update_result.kind = "Err"
    /\ all_violations # {}

\* The two identifiers agree on violation_type, file, constant_name,
\* referencing_pack_name and defining_pack_name
SameFiveFields(a, b) ==
    /\ a.violation_type = b.violation_type
    /\ a.file = b.file
    /\ a.constant_name = b.constant_name
    /\ a.referencing_pack_name = b.referencing_pack_name
    /\ a.defining_pack_name = b.defining_pack_name

C19_FlagOnlyReportable ==
    Returned =>
        LET other == CheckAllResult(found_violations, all_violations,
                                    ~ignore_recorded_violations, pack_set)
        IN  /\ other.stale_violations = check_all_result.stale_violations
            /\ other.strict_mode_violations = check_all_result.strict_mode_violations
            /\ ignore_recorded_violations =>
                    \A v \in found_violations.violations :
                        /\ v \in check_all_result.reportable_violations
                        /\ v.identifier \notin check_all_result.stale_violations
            /\ \A recorded \in all_violations :
                    (/\ Absolute(recorded.file) \in absolute_paths
                     /\ recorded \notin FoundIdentifiers)
                        => recorded \in check_all_result.stale_violations

\* With the flag set: a recorded violation found again is reportable and not stale,
\* beside a recorded violation of a checked file that is not found again and stale
C19_Witness ==
    /\ Returned
    /\ ignore_recorded_violations
    /\ \E v \in found_violations.violations :
            /\ v.identifier \in all_violations
            /\ v \in check_all_result.reportable_violations
            /\ v.identifier \notin check_all_result.stale_violations
    /\ \E recorded \in all_violations :
            /\ Absolute(recorded.file) \in absolute_paths
            /\ recorded \notin FoundIdentifiers
            /\ recorded \in check_all_result.stale_violations

\* C20: in every CheckAllResult the stale and the strict-mode violations are
\* recorded violations, no stale violation is the identifier of a found violation,
\* without ignore_recorded_violations no reportable violation has a recorded
\* identifier, and has_violations() is true exactly when one of the three buckets
\* is not empty.
C20_ResultInvariants ==
    Returned =>
        /\ check_all_result.stale_violations \subseteq all_violations
        /\ check_all_result.strict_mode_violations \subseteq all_violations
        /\ check_all_result.stale_violations \cap FoundIdentifiers = {}
        /\ ~ignore_recorded_violations =>
                \A v \in check_all_result.reportable_violations :
                    v.identifier \notin all_violations
        /\ has_violations(check_all_result)
            <=> Cardinality(check_all_result.reportable_violations)
                    + Cardinality(check_all_result.stale_violations)
                    + Cardinality(check_all_result.strict_mode_violations) > 0

\* A result whose only violations are strict-mode violations
C20_Witness ==
    /\ Returned
    /\ check_all_result.reportable_violations = {}
    /\ check_all_result.stale_violations = {}
    /\ check_all_result.strict_mode_violations # {}
    /\ found_violations.violations # {}
    /\ has_violations(check_all_result)

-----------------------------------------------------------------------------
(* Claims about the privacy checker, under PrivacySpec *)

Checked == check_result # NoCall

\* The packs of the checked reference, when both are in the pack set
Resolved ==
    /\ Checked
    /\ HasPack(pack_set, checked_reference.referencing_pack_name)
    /\ checked_reference.defining_pack_name # None
    /\ HasPack(pack_set, checked_reference.defining_pack_name)

DefiningPack == for_pack(pack_set, checked_reference.defining_pack_name)

\* The path is below the folder, on whole path components
IsBelowFolder(path, folder) == StartsWith(path, folder \o Slash)

\* The defining file of the checked reference lies in the public folder of its
\* defining pack
InPublicFolder ==
    /\ checked_reference.relative_defining_file # None
    /\ IsBelowFolder(checked_reference.relative_defining_file, public_folder(DefiningPack))

\* A cross-pack reference to a resolved file outside the public folder of a pack
\* that enforces privacy, the constant not ignored
PrivateByLocation ==
    /\ Resolved
    /\ checked_reference.referencing_pack_name # checked_reference.defining_pack_name
    /\ ~is_false(DefiningPack.enforce_privacy)
    /\ checked_reference.constant_name \notin DefiningPack.ignored_private_constants
    /\ checked_reference.relative_defining_file # None
    /\ ~InPublicFolder

\* The constant equals an entry of private_constants or starts with "<entry>::"
ListedPrivate ==
    \E entry \in DefiningPack.private_constants :
        \/ checked_reference.constant_name = entry
        \/ StartsWith(checked_reference.constant_name, entry \o Colons)

\* C7: a cross-pack reference to a file outside the public folder raises a
\* violation always when private_constants is empty, and when it is not empty
\* exactly when the constant equals an entry or starts with "<entry>::".
C7_PrivateConstantsDecide ==
    PrivateByLocation =>
        (check_result.kind = "Some"
            <=> (DefiningPack.private_constants = {} \/ ListedPrivate))

\* The case of C7 that the code gets wrong: the defining file is outside the public
\* folder in a sibling directory whose name begins with the public folder's name
C7_SiblingOfPublicFolder ==
    /\ PrivateByLocation
    /\ DefiningPack.private_constants = {}
    /\ checked_reference.relative_defining_file = BarPublicApiFile
    /\ check_result.kind = "None"

\* C7 where the code and the claim agree: the defining file does not even begin
\* with the text of the public folder
C7_OutsideByText ==
    (/\ PrivateByLocation
     /\ ~StartsWith(checked_reference.relative_defining_file, public_folder(DefiningPack)))
        => (check_result.kind = "Some"
                <=> (DefiningPack.private_constants = {} \/ ListedPrivate))

\* C8: a constant in ignored_private_constants of the defining pack raises no
\* privacy violation, also when private_constants lists it, wherever it is defined.
C8_IgnoreListWins ==
    (/\ Resolved
     /\ checked_reference.constant_name \in DefiningPack.ignored_private_constants)
        => check_result.kind = "None"

C8_Witness ==
    /\ Resolved
    /\ checked_reference.referencing_pack_name # checked_reference.defining_pack_name
    /\ is_strict(DefiningPack.enforce_privacy)
    /\ checked_reference.constant_name \in DefiningPack.ignored_private_constants
    /\ checked_reference.constant_name \in DefiningPack.private_constants
    /\ checked_reference.relative_defining_file = BarServiceFile
    /\ check_result.kind = "None"

\* C9: a defining file below the public folder of the defining pack (the configured
\* folder, or <relative_path>/app/public) raises no privacy violation, also when the
\* constant is an entry of private_constants or in the namespace of one.
C9_PublicFolderWins ==
    (Resolved /\ InPublicFolder) => check_result.kind = "None"

C9_Witness ==
    /\ Resolved
    /\ InPublicFolder
    /\ DefiningPack.public_folder # None
    /\ checked_reference.referencing_pack_name # checked_reference.defining_pack_name
    /\ ~is_false(DefiningPack.enforce_privacy)
    /\ checked_reference.constant_name \notin DefiningPack.ignored_private_constants
    /\ checked_reference.constant_name \notin DefiningPack.private_constants
    /\ ListedPrivate
    /\ check_result.kind = "None"

\* C10: a reference whose referencing pack is its defining pack raises no privacy
\* violation, whatever the pack's enforcement, lists and the defining file are.
C10_SelfReferenceAllowed ==
    (/\ Checked
     /\ checked_reference.referencing_pack_name = checked_reference.defining_pack_name)
        => check_result.kind # "Some"

C10_Witness ==
    /\ Resolved
    /\ checked_reference.referencing_pack_name = checked_reference.defining_pack_name
    /\ is_strict(DefiningPack.enforce_privacy)
    /\ checked_reference.constant_name \notin DefiningPack.ignored_private_constants
    /\ checked_reference.constant_name \in DefiningPack.private_constants
    /\ checked_reference.relative_defining_file = BarServiceFile
    /\ check_result.kind = "None"

\* C11: when the enforcement of privacy of the defining pack is off, the check of
\* a resolved reference returns no violation, whatever the constant, the
\* private_constants, the ignored constants, the public folder, the defining
\* file and the referencing pack are.
C11_OffRaisesNothing ==
    (Resolved /\ is_false(DefiningPack.enforce_privacy)) => check_result.kind = "None"

\* A reference from another pack to a constant listed in private_constants, defined
\* in a file outside the public folder of a pack whose enforcement is off
C11_Witness ==
    /\ Resolved
    /\ is_false(DefiningPack.enforce_privacy)
    /\ checked_reference.referencing_pack_name # checked_reference.defining_pack_name
    /\ checked_reference.constant_name \in DefiningPack.private_constants
    /\ checked_reference.constant_name \notin DefiningPack.ignored_private_constants
    /\ checked_reference.relative_defining_file = BarServiceFile
    /\ check_result.kind = "None"

\* C15: the defining file is public only when the public folder is a prefix of
\* its path on whole path components; a reference from another pack to a constant
\* that is not ignored, defined in a file that is not below the public folder on
\* whole components, raises a violation when the enforcement is on and
\* private_constants is empty.
C15_PublicOnWholeComponents ==
    (/\ Resolved
     /\ DefiningPack.enforce_privacy = "True"
     /\ DefiningPack.private_constants = {}
     /\ PrivateByLocation) => check_result.kind = "Some"

\* packs/bar/app/public_api/x.rb, referenced from packs/foo, with the public folder
\* packs/bar/app/public, enforcement on and no private_constants: no violation
C15_PublicApiIsPublic ==
    /\ Resolved
    /\ DefiningPack.enforce_privacy = "True"
    /\ DefiningPack.private_constants = {}
    /\ DefiningPack.ignored_private_constants = {}
    /\ checked_reference.referencing_pack_name = PacksFoo
    /\ checked_reference.relative_defining_file = BarPublicApiFile
    /\ public_folder(DefiningPack) = PacksBar \o Slash \o AppPublic
    /\ check_result.kind = "None"

\* C18: a pack name that is not in the pack set is fatal to the privacy checker:
\* check returns an error when the referencing pack, or a defining pack that is
\* named, is missing, before any rule that would return no violation; and
\* is_strict_mode_violation returns an error when the defining pack of the
\* violation is missing.
C18_MissingPackIsFatal ==
    /\ (/\ Checked
        /\ \/ ~HasPack(pack_set, checked_reference.referencing_pack_name)
           \/ /\ checked_reference.defining_pack_name # None
              /\ ~HasPack(pack_set, checked_reference.defining_pack_name))
       => check_result = Err(NotFound)
    /\ (/\ strict_mode_result # NoCall
        /\ ~HasPack(pack_set, checked_violation.defining_pack_name))
       => strict_mode_result = Err(NotFound)

\* test_defining_pack_not_found: packs/bar is not in the pack set and the defining
\* file lies in what would be its public folder
C18_Witness ==
    /\ Checked
    /\ pack_set = {FooPack}
    /\ checked_reference.referencing_pack_name = PacksFoo
    /\ checked_reference.defining_pack_name = PacksBar
    /\ checked_reference.relative_defining_file = BarPublicFile
    /\ check_result = Err(NotFound)

-----------------------------------------------------------------------------
(* get_all_violations as the parallel iterator runs it: the checkers are handed  *)
(* to the folders of the workers in any partition and any order, each folder    *)
(* folds its checkers into an accumulator of its own, and the accumulators are  *)
(* reduced pairwise in any order.                                               *)

Workers == 1..MaxWorkers

Ok(value) == [kind |-> "Ok", value |-> value]

\* The closure of try_fold: the checker on every reference; the ? ends it with the
\* error of a check that fails
FoldChecker(acc, c, references, packs) ==
    LET results == {check(c, reference, packs) : reference \in references}
    IN  IF \E result \in results : result.kind = "Err"
        THEN Err(NotFound)
        ELSE Ok(acc.value \cup
                {result.violation : result \in {x \in results : x.kind = "Some"}})

\* the merge that keeps the accumulator and drops the set merged into it
extend_nothing(acc, v) == acc

\* HashSet::extend
extend(acc, v) == acc \cup v

\* try_reduce on two accumulators: an error on either side is the result
TryReduce(acc, v) ==
    IF acc.kind = "Err" THEN acc
    ELSE IF v.kind = "Err" THEN v
    ELSE Ok(extend(acc.value, v.value))

\* get_all_violations is called on the included files: every worker holds the
\* empty set that HashSet::new gives its folder
ParallelInit ==
    /\ pack_set \in ConfiguredPackSets
    /\ all_violations = {}
    /\ ignore_recorded_violations = FALSE
    /\ codebase \in SubsetsUpTo(ReferenceUniverse, MaxReferences)
    /\ remaining_checkers = Range(get_checkers)
    /\ partial = [w \in Workers |-> [status |-> "folding", acc |-> Ok({})]]
    /\ try_reduce_result = NoCall
    /\ PrivacyIdle
    /\ EngineIdle
    /\ QueriesIdle

\* The folder of worker w takes checker c. A folder that holds an error takes no
\* more checkers into account, and once some folder holds an error the others
\* may pass over the checkers they take.
Fold(w, c) ==
    /\ partial[w].status = "folding"
    /\ c \in remaining_checkers
    /\ remaining_checkers' = remaining_checkers \ {c}
    /\ \E acc \in IF partial[w].acc.kind = "Err"
                   THEN {partial[w].acc}
                   ELSE {FoldChecker(partial[w].acc, c,
                                     get_all_references(codebase, included_files),
                                     pack_set)}
                        \cup {partial[w].acc : x \in {v \in Workers :
                                                        partial[v].acc.kind = "Err"}} :
            partial' = [partial EXCEPT ![w].acc = acc]
    /\ UNCHANGED <<configVars, privacyVars, engineVars, try_reduce_result,
                   analyzerVars, dependentsVars>>

\* The part of the checkers handed to the folder of worker w is exhausted
FoldDone(w) ==
    /\ partial[w].status = "folding"
    /\ \/ remaining_checkers = {}
       \/ \E v \in Workers \ {w} : partial[v].status = "folding"
    /\ partial' = [partial EXCEPT ![w].status = "folded"]
    /\ UNCHANGED <<configVars, privacyVars, engineVars, remaining_checkers,
                   try_reduce_result, analyzerVars, dependentsVars>>

\* try_reduce merges the accumulator of worker v into that of worker w
Reduce(w, v) ==
    /\ w # v
    /\ partial[w].status = "folded"
    /\ partial[v].status = "folded"
    /\ partial' = [partial EXCEPT ![w].acc = TryReduce(partial[w].acc, partial[v].acc),
                                  ![v].status = "reduced"]
    /\ UNCHANGED <<configVars, privacyVars, engineVars, remaining_checkers,
                   try_reduce_result, analyzerVars, dependentsVars>>

\* One accumulator is left: it is what get_all_violations returns
Return ==
    /\ try_reduce_result = NoCall
    /\ remaining_checkers = {}
    /\ \E w \in Workers :
            /\ partial[w].status = "folded"
            /\ \A v \in Workers \ {w} : partial[v].status = "reduced"
            /\ try_reduce_result' = partial[w].acc
    /\ UNCHANGED <<configVars, privacyVars, engineVars, remaining_checkers, partial,
                   analyzerVars, dependentsVars>>

ParallelNext ==
    \/ \E w \in Workers, c \in Range(get_checkers) : Fold(w, c)
    \/ \E w \in Workers : FoldDone(w)
    \/ \E w, v \in Workers : Reduce(w, v)
    \/ Return

ParallelSpec == ParallelInit /\ [][ParallelNext]_vars

\* C17: whatever the partition of the checkers over the workers and whatever the
\* order of the folds and of the merges, what get_all_violations returns when no
\* check fails is the set of the violations of the Some results of every checker
\* on every reference, a violation being one message with one identifier; it is
\* what the sequential definition gives.
C17_PartitionIndependent ==
    try_reduce_result # NoCall =>
        LET results == AllChecks(get_all_references(codebase, included_files), pack_set)
        IN  /\ (\A result \in results : result.kind # "Err") =>
                    try_reduce_result =
                        Ok({result.violation : result \in {x \in results : x.kind = "Some"}})
            /\ try_reduce_result = get_all_violations(codebase, pack_set, included_files)

\* Two workers with accumulators that are not empty and differ were merged into
\* the set returned
C17_Witness ==
    /\ try_reduce_result # NoCall
    /\ try_reduce_result.kind = "Ok"
    /\ \E w, v \in Workers :
            /\ partial[v].status = "reduced"
            /\ partial[v].acc.value # {}
            /\ partial[w].status = "folded"
            /\ partial[v].acc.value # partial[w].acc.value
            /\ \E a \in partial[w].acc.value, b \in partial[v].acc.value :
                    a.identifier.violation_type # b.identifier.violation_type

-----------------------------------------------------------------------------
(* The analyzer of unnecessary dependencies *)

\* The sequences over S of length n at most
SeqsUpTo(S, n) == UNION {[1..k -> S] : k \in 0..n}

\* The loop over the references: edge_counts after the references of the list, a
\* map from (referencing pack, defining pack) to the number of references counted
RECURSIVE edge_counts(_)
edge_counts(references) ==
    IF references = <<>> THEN <<>>
    ELSE LET counts == edge_counts(SubSeq(references, 1, Len(references) - 1))
             reference == references[Len(references)]
             edge_key == <<reference.referencing_pack_name, reference.defining_pack_name>>
         IN  IF reference.defining_pack_name = None THEN counts
             ELSE IF edge_key \in DOMAIN counts
                  THEN [counts EXCEPT ![edge_key] = @ + 1]
                  ELSE [key \in DOMAIN counts \cup {edge_key} |->
                            IF key = edge_key THEN 1 ELSE counts[key]]

\* the test that takes an edge counted once for an unused one
is_unused_below_two(edge_count) == edge_count < 2

\* edge_count == &0
is_unused(edge_count) == edge_count = 0

\* get_unnecessary_dependencies on the references of the included files: the map
\* from a pack to the dependencies it declares and no reference uses
get_unnecessary_dependencies(references, packs) ==
    LET counts == edge_counts(references)
        edge_count(edge_key) == IF edge_key \in DOMAIN counts THEN counts[edge_key] ELSE 0
        unused(pack) == {dependency_name \in pack.dependencies :
                            is_unused(edge_count(<<pack.name, dependency_name>>))}
    IN  [pack \in {p \in packs : unused(p) # {}} |-> unused(pack)]

\* packs/foo and packs/bar with the dependencies they can declare on each other
\* and on themselves
AnalyzerPackSets ==
    {{Pack(PacksFoo, "True", foo_dependencies, "False", {}, {}, None),
      Pack(PacksBar, "True", bar_dependencies, "False", {}, {}, None)} :
        foo_dependencies \in SUBSET {PacksFoo, PacksBar},
        bar_dependencies \in SUBSET {PacksFoo}}

\* The references the extractor can find between the two packs, resolved or not
AnalyzerReferences ==
    {Reference(Bar, defining, referencing, ReferencingFileOf(referencing), None, 3) :
        referencing \in {PacksFoo, PacksBar}, defining \in {None, PacksFoo, PacksBar}}

AnalyzerInit ==
    /\ pack_set \in AnalyzerPackSets
    /\ all_violations = {}
    /\ ignore_recorded_violations = FALSE
    /\ codebase = {}
    /\ reference_list \in SeqsUpTo(AnalyzerReferences, MaxReferenceList)
    /\ unnecessary_dependencies = NoCall
    /\ written_packs = NoCall
    /\ pack_list = <<>>
    /\ target_pack_name = None
    /\ dependents = NoCall
    /\ PrivacyIdle
    /\ EngineIdle
    /\ ParallelIdle

\* check_unnecessary_dependencies(configuration): Ok when the map is empty, else
\* the edges are printed and the call fails
CheckUnnecessaryDependencies ==
    LET found == get_unnecessary_dependencies(reference_list, pack_set)
    IN  /\ unnecessary_dependencies = NoCall
        /\ unnecessary_dependencies' =
                [kind |-> IF DOMAIN found = {} THEN "Ok" ELSE "Err", value |-> found]
        /\ UNCHANGED <<configVars, privacyVars, engineVars, parallelVars,
                       reference_list, written_packs, dependentsVars>>

\* the rewrite that drops every dependency of the pack
remove_reference_to_dependency_drops_all(pack, dependency_names) ==
    [pack EXCEPT !.dependencies = {}]

\* remove_reference_to_dependency: updated_pack, the pack with the dependencies
\* that are not among dependency_names and every other field as it was
remove_reference_to_dependency(pack, dependency_names) ==
    [pack EXCEPT !.dependencies =
        {dependency \in pack.dependencies : dependency \notin dependency_names}]

\* write_pack_to_disk and the next load of the configuration: the pack written
\* takes the place of the pack of its name
write_pack_to_disk(packs, updated_pack) ==
    {p \in packs : p.name # updated_pack.name} \cup {updated_pack}

\* The pack set loaded after these packs were written, one after the other
RECURSIVE write_packs_to_disk(_, _)
write_packs_to_disk(packs, written) ==
    IF written = <<>> THEN packs
    ELSE write_pack_to_disk(write_packs_to_disk(packs, SubSeq(written, 1, Len(written) - 1)),
                            written[Len(written)])

\* The orders in which unnecessary_dependencies.iter() can yield the entries of
\* the map: the sequences that hold each of its packs once
IterationOrders(unnecessary) ==
    {order \in [1..Cardinality(DOMAIN unnecessary) -> DOMAIN unnecessary] :
        \A i, j \in 1..Cardinality(DOMAIN unnecessary) : order[i] = order[j] => i = j}

\* remove_unnecessary_dependencies(configuration): the map is computed, then each
\* of its packs is written without its unnecessary dependencies, in the order of
\* the iteration of the map; the configuration is loaded anew afterwards
RemoveUnnecessaryDependencies ==
    LET unnecessary == get_unnecessary_dependencies(reference_list, pack_set)
    IN  /\ written_packs = NoCall
        /\ \E order \in IterationOrders(unnecessary) :
                LET written == [i \in 1..Len(order) |->
                                    remove_reference_to_dependency(order[i],
                                                                   unnecessary[order[i]])]
                IN  /\ written_packs' = Ok(written)
                    /\ pack_set' = write_packs_to_disk(pack_set, written)
        /\ unnecessary_dependencies' = NoCall
        /\ UNCHANGED <<all_violations, ignore_recorded_violations, codebase,
                       privacyVars, engineVars, parallelVars,
                       reference_list, dependentsVars>>

AnalyzerNext ==
    \/ CheckUnnecessaryDependencies
    \/ RemoveUnnecessaryDependencies

AnalyzerSpec == AnalyzerInit /\ [][AnalyzerNext]_vars

\* The edges (pack, dependency) of the map returned
FlaggedEdges(unnecessary) ==
    UNION {{<<pack.name, dependency_name>> : dependency_name \in unnecessary[pack]} :
            pack \in DOMAIN unnecessary}

\* The lists that hold the references of the list in another order
Reorderings(references) ==
    {[i \in 1..Len(references) |-> references[order[i]]] :
        order \in {f \in [1..Len(references) -> 1..Len(references)] :
                        \A i, j \in 1..Len(references) : f[i] = f[j] => i = j}}

\* C12: the analyzer flags the dependency D that pack P declares exactly when no
\* reference with a resolved defining pack is from P to D, a reference with no
\* defining pack counting for nothing; only declared dependencies are flagged,
\* and every order of the reference list gives the same flagged edges.
C12_UnusedDependencies ==
    unnecessary_dependencies # NoCall =>
        LET flagged == FlaggedEdges(unnecessary_dependencies.value)
        IN  /\ \A pack \in pack_set : \A dependency_name \in pack.dependencies :
                    <<pack.name, dependency_name>> \in flagged
                        <=> ~\E i \in 1..Len(reference_list) :
                                /\ reference_list[i].defining_pack_name # None
                                /\ reference_list[i].referencing_pack_name = pack.name
                                /\ reference_list[i].defining_pack_name = dependency_name
            /\ \A edge \in flagged :
                    \E pack \in pack_set : pack.name = edge[1] /\ edge[2] \in pack.dependencies
            /\ \A references \in Reorderings(reference_list) :
                    FlaggedEdges(get_unnecessary_dependencies(references, pack_set)) = flagged

\* packs/foo declares packs/bar and references it only without a resolved defining
\* pack: flagged; packs/bar declares packs/foo and references it twice: not flagged
C12_Witness ==
    /\ unnecessary_dependencies # NoCall
    /\ Len(reference_list) = 3
    /\ \E i \in 1..3 : /\ reference_list[i].referencing_pack_name = PacksFoo
                       /\ reference_list[i].defining_pack_name = None
    /\ Cardinality({i \in 1..3 : /\ reference_list[i].referencing_pack_name = PacksBar
                                 /\ reference_list[i].defining_pack_name = PacksFoo}) = 2
    /\ <<PacksFoo, PacksBar>> \in FlaggedEdges(unnecessary_dependencies.value)
    /\ <<PacksBar, PacksFoo>> \notin FlaggedEdges(unnecessary_dependencies.value)
    /\ PacksFoo \in for_pack(pack_set, PacksBar).dependencies

\* Some reference of the list with a resolved defining pack is from the pack to
\* the dependency
Exercised(name, dependency_name) ==
    \E i \in 1..Len(reference_list) :
        /\ reference_list[i].defining_pack_name # None
        /\ reference_list[i].referencing_pack_name = name
        /\ reference_list[i].defining_pack_name = dependency_name

\* The pack as remove_unnecessary_dependencies is to leave it: the dependencies
\* that a reference exercises, every other field as it is
WithExercisedOnly(pack) ==
    [pack EXCEPT !.dependencies =
        {dependency_name \in pack.dependencies : Exercised(pack.name, dependency_name)}]

\* What a step of remove_unnecessary_dependencies does: every pack is loaded next
\* with its declared dependencies minus the flagged ones, computed on the
\* configuration as it was before any write; a pack is written once when it loses
\* a dependency, with just that change, and not written otherwise
RemovesUnusedOnly ==
    (written_packs = NoCall /\ written_packs' # NoCall) =>
        LET written == written_packs'.value
        IN  /\ Cardinality(pack_set') = Cardinality(pack_set)
            /\ \A i \in 1..Len(written) : \E pack \in pack_set : written[i].name = pack.name
            /\ \A pack \in pack_set :
                    /\ WithExercisedOnly(pack) \in pack_set'
                    /\ Cardinality({i \in 1..Len(written) : written[i].name = pack.name})
                            = IF WithExercisedOnly(pack) # pack THEN 1 ELSE 0
                    /\ \A i \in 1..Len(written) :
                            written[i].name = pack.name => written[i] = WithExercisedOnly(pack)

\* A check_unnecessary_dependencies that follows the removal, over the same
\* references, finds nothing and succeeds
CheckAfterRemovalSucceeds ==
    (written_packs # NoCall /\ unnecessary_dependencies # NoCall) =>
        /\ unnecessary_dependencies.kind = "Ok"
        /\ DOMAIN unnecessary_dependencies.value = {}

\* C21: remove_unnecessary_dependencies writes each pack that has a flagged
\* dependency once, after the flagged set was computed on the whole configuration,
\* with its declared dependencies minus the flagged ones and every other field
\* unchanged, and writes no other pack; a dependency that a reference exercises is
\* never removed, and a check_unnecessary_dependencies that follows over the same
\* references finds no unnecessary dependency and succeeds.
C21_RemovalIsExact == []CheckAfterRemovalSucceeds /\ [][RemovesUnusedOnly]_vars

\* packs/foo declared itself and packs/bar and references packs/bar only: it was
\* written once with packs/bar kept, packs/bar was not written, and the check that
\* followed succeeded
C21_Witness ==
    /\ written_packs # NoCall
    /\ unnecessary_dependencies # NoCall
    /\ unnecessary_dependencies.kind = "Ok"
    /\ Len(written_packs.value) = 1
    /\ written_packs.value[1].name = PacksFoo
    /\ written_packs.value[1].dependencies = {PacksBar}
    /\ Exercised(PacksFoo, PacksBar)
    /\ ~Exercised(PacksFoo, PacksFoo)
    /\ for_pack(pack_set, PacksFoo).dependencies = {PacksBar}
    /\ for_pack(pack_set, PacksBar).dependencies = {PacksFoo}

-----------------------------------------------------------------------------
(* find_dependents (src/packs/dependents.rs) *)

PacksBaz == <<"p", "a", "c", "k", "s", "/", "b", "a", "z">>

\* The characters of the pack names in the order of their bytes
ByteOrder ==
    <<"/", "a", "b", "c", "d", "e", "f", "g", "h", "i", "j", "k", "l", "m",
      "n", "o", "p", "q", "r", "s", "t", "u", "v", "w", "x", "y", "z">>

byte(ch) == CHOOSE i \in 1..Len(ByteOrder) : ByteOrder[i] = ch

\* Ord of String: a < b, lexicographic on the bytes
string_lt(a, b) ==
    \E i \in 1..(Len(a) + 1) :
        /\ i - 1 <= Len(b)
        /\ SubSeq(a, 1, i - 1) = SubSeq(b, 1, i - 1)
        /\ \/ i = Len(a) + 1 /\ i <= Len(b)
           \/ i <= Len(a) /\ i <= Len(b) /\ byte(a[i]) < byte(b[i])

\* One step of the sort: x goes behind the elements that are not greater
insert_sorted(sorted, x) ==
    LET k == Cardinality({i \in 1..Len(sorted) : ~string_lt(x, sorted[i])})
    IN  SubSeq(sorted, 1, k) \o <<x>> \o SubSeq(sorted, k + 1, Len(sorted))

\* Vec<String>::sort
RECURSIVE sort(_)
sort(v) ==
    IF v = <<>> THEN <<>>
    ELSE insert_sorted(sort(SubSeq(v, 1, Len(v) - 1)), v[Len(v)])

\* Pack, the fields find_dependents reads; the package_todo maps a defining pack
\* name to its violation groups, a map from a constant name to the violation
\* types recorded for it
DependentPack(name, dependencies, violations_by_defining_pack) ==
    [name |-> name,
     dependencies |-> dependencies,
     package_todo |-> [violations_by_defining_pack |-> violations_by_defining_pack]]

\* the filter that lets the pack asked about through
is_public_dependent_or_self(p, pack) == pack.name \in p.dependencies

\* The filter of public_dependents
is_public_dependent(p, pack) ==
    /\ p.name # pack.name
    /\ pack.name \in p.dependencies

\* packs.iter().filter(..).map(|p| p.name.clone()).collect()
RECURSIVE filter_map_names(_, _)
filter_map_names(packs, pack) ==
    IF packs = <<>> THEN <<>>
    ELSE LET names == filter_map_names(SubSeq(packs, 1, Len(packs) - 1), pack)
             p == packs[Len(packs)]
         IN  IF is_public_dependent(p, pack) THEN Append(names, p.name) ELSE names

\* the count that is set to 1 and never incremented
count_type_once(entry, type_name) ==
    [key \in DOMAIN entry \cup {type_name} |->
        IF key = type_name THEN 1 ELSE entry[key]]

\* entry.entry(type_name).and_modify(|e| *e += 1).or_insert(1)
count_type(entry, type_name) ==
    IF type_name \in DOMAIN entry
    THEN [entry EXCEPT ![type_name] = @ + 1]
    ELSE [key \in DOMAIN entry \cup {type_name} |->
            IF key = type_name THEN 1 ELSE entry[key]]

\* The loop over the violation types of one group
RECURSIVE count_types(_, _)
count_types(entry, violation_types) ==
    IF violation_types = {} THEN entry
    ELSE LET type_name == CHOOSE t \in violation_types : TRUE
         IN  count_types(count_type(entry, type_name),
                         violation_types \ {type_name})

\* The loop over violation_groups.values(), the groups of these constants left
RECURSIVE count_groups(_, _, _)
count_groups(entry, violation_groups, constants) ==
    IF constants = {} THEN entry
    ELSE LET constant == CHOOSE c \in constants : TRUE
         IN  count_groups(count_types(entry, violation_groups[constant]),
                          violation_groups, constants \ {constant})

\* The packs that get an entry in violation_dependents: another pack whose
\* package_todo has the key of the pack asked about, with a group under it
violation_dependent_packs(packs, pack) ==
    {current_pack \in Range(packs) :
        /\ current_pack.name # pack.name
        /\ \E violation_pack_name \in
                DOMAIN current_pack.package_todo.violations_by_defining_pack :
                /\ violation_pack_name = pack.name
                /\ DOMAIN current_pack.package_todo
                            .violations_by_defining_pack[violation_pack_name] # {}}

\* The loops that fill violation_dependents
violation_dependents(packs, pack) ==
    [name \in {current_pack.name : current_pack \in violation_dependent_packs(packs, pack)} |->
        LET current_pack == for_pack(Range(packs), name)
            violation_groups ==
                current_pack.package_todo.violations_by_defining_pack[pack.name]
        IN  count_groups(<<>>, violation_groups, DOMAIN violation_groups)]

\* find_dependents(configuration, pack_name)
find_dependents(packs, name) ==
    IF ~HasPack(Range(packs), name) THEN Err(NotFound)
    ELSE LET pack == for_pack(Range(packs), name)
         IN  [kind |-> "Ok",
              public_dependents |-> sort(filter_map_names(packs, pack)),
              violation_dependents |-> violation_dependents(packs, pack)]

\* The constants a package_todo records, and the violation types of a group
TodoConstants == {Bar, Taco, BarBarChild}
ViolationTypes == {PrivacyType, DependencyType}

\* The violation groups a package_todo can hold against one defining pack
ViolationGroups ==
    UNION {[constants -> SUBSET ViolationTypes] :
            constants \in SubsetsUpTo(TodoConstants, MaxGroups)}

\* One group of one type against packs/bar
BarPrivacyTodo == [name \in {PacksBar} |-> [constant \in {Bar} |-> {PrivacyType}]]

\* The package_todo of packs/foo: groups against packs/bar or no key for it, beside
\* a group against packs/baz or none
FooTodos ==
    {<<>>, [name \in {PacksBaz} |-> [constant \in {Bar} |-> {PrivacyType}]]}
    \cup {[name \in {PacksBar} |-> violation_groups] :
            violation_groups \in ViolationGroups}
    \cup {[name \in {PacksBar, PacksBaz} |->
                IF name = PacksBar THEN violation_groups
                ELSE [constant \in {Bar} |-> {PrivacyType}]] :
            violation_groups \in ViolationGroups}

\* packs/foo, packs/bar and packs/baz in every iteration order
DependentPackLists ==
    {[i \in 1..3 |-> <<foo, bar, baz>>[order[i]]] :
        foo \in {DependentPack(PacksFoo, dependencies, todo) :
                    dependencies \in SUBSET {PacksBar}, todo \in FooTodos},
        bar \in {DependentPack(PacksBar, dependencies, todo) :
                    dependencies \in SUBSET {PacksBar}, todo \in {<<>>, BarPrivacyTodo}},
        baz \in {DependentPack(PacksBaz, dependencies, todo) :
                    dependencies \in SUBSET {PacksBar}, todo \in {<<>>, BarPrivacyTodo}},
        order \in {f \in [1..3 -> 1..3] : {f[1], f[2], f[3]} = 1..3}}

DependentsInit ==
    /\ pack_set = {}
    /\ all_violations = {}
    /\ ignore_recorded_violations = FALSE
    /\ codebase = {}
    /\ reference_list = <<>>
    /\ unnecessary_dependencies = NoCall
    /\ written_packs = NoCall
    /\ pack_list \in DependentPackLists
    /\ target_pack_name = None
    /\ dependents = NoCall
    /\ PrivacyIdle
    /\ EngineIdle
    /\ ParallelIdle

\* find_dependents(configuration, pack_name), once for a configuration
FindDependents ==
    \E name \in {PacksBar, PacksMissing} :
        /\ dependents = NoCall
        /\ target_pack_name' = name
        /\ dependents' = find_dependents(pack_list, name)
        /\ UNCHANGED <<configVars, privacyVars, engineVars, parallelVars,
                       analyzerVars, pack_list>>

DependentsNext == FindDependents

DependentsSpec == DependentsInit /\ [][DependentsNext]_vars

\* The names of the packs other than the one asked about that declare it
DeclaringPacks ==
    {p.name : p \in {q \in Range(pack_list) :
                        /\ q.name # target_pack_name
                        /\ target_pack_name \in q.dependencies}}

\* C13: public_dependents holds exactly the names of the packs other than the
\* pack asked about whose dependencies contain it, each once, in ascending order
\* of the names; the pack asked about is not in it, even when it declares itself.
C13_PublicDependents ==
    (dependents # NoCall /\ dependents.kind = "Ok") =>
        LET names == dependents.public_dependents
        IN  /\ Range(names) = DeclaringPacks
            /\ Len(names) = Cardinality(DeclaringPacks)
            /\ \A i, j \in 1..Len(names) : i < j => string_lt(names[i], names[j])
            /\ target_pack_name \notin Range(names)

\* packs/foo comes before packs/baz in the pack set, both declare packs/bar, and
\* packs/bar declares itself: public_dependents is packs/baz, packs/foo
C13_Witness ==
    /\ dependents # NoCall
    /\ target_pack_name = PacksBar
    /\ \E i, j \in 1..3 : /\ i < j
                          /\ pack_list[i].name = PacksFoo
                          /\ pack_list[j].name = PacksBaz
    /\ \A i \in 1..3 : PacksBar \in pack_list[i].dependencies
    /\ dependents.kind = "Ok"
    /\ dependents.public_dependents = <<PacksBaz, PacksFoo>>

\* The violation groups the package_todo of the pack holds against the pack asked
\* about: none when it has no key for it
GroupsAgainstTarget(p) ==
    IF target_pack_name \in DOMAIN p.package_todo.violations_by_defining_pack
    THEN p.package_todo.violations_by_defining_pack[target_pack_name]
    ELSE <<>>

\* C14: violation_dependents has a key for a pack exactly when the pack is not the
\* one asked about and its package_todo has at least one violation group under
\* the key of the pack asked about; the count it holds for a violation type is the
\* number of the groups (constants) of the pack against the pack asked about whose
\* violation types include the type, and a type of no group has no count.
C14_ViolationDependents ==
    (dependents # NoCall /\ dependents.kind = "Ok") =>
        /\ DOMAIN dependents.violation_dependents \subseteq
                {p.name : p \in Range(pack_list)}
        /\ \A p \in Range(pack_list) :
                LET groups == GroupsAgainstTarget(p)
                    listed == p.name \in DOMAIN dependents.violation_dependents
                IN  /\ listed <=> (p.name # target_pack_name /\ DOMAIN groups # {})
                    /\ listed =>
                        \A type_name \in ViolationTypes :
                            LET count == Cardinality({constant \in DOMAIN groups :
                                                        type_name \in groups[constant]})
                                counts == dependents.violation_dependents[p.name]
                            IN  IF count = 0
                                THEN type_name \notin DOMAIN counts
                                ELSE /\ type_name \in DOMAIN counts
                                     /\ counts[type_name] = count

\* packs/foo has ::Bar recorded as privacy and dependency and ::Taco as privacy
\* against packs/bar: privacy 2, dependency 1; packs/bar, which has a group against
\* itself, has no key
C14_Witness ==
    /\ dependents # NoCall
    /\ dependents.kind = "Ok"
    /\ target_pack_name = PacksBar
    /\ \E p \in Range(pack_list) :
            /\ p.name = PacksFoo
            /\ GroupsAgainstTarget(p) =
                    [constant \in {Bar, Taco} |->
                        IF constant = Bar THEN {PrivacyType, DependencyType}
                        ELSE {PrivacyType}]
    /\ \E p \in Range(pack_list) :
            p.name = PacksBar /\ DOMAIN GroupsAgainstTarget(p) # {}
    /\ PacksBar \notin DOMAIN dependents.violation_dependents
    /\ dependents.violation_dependents[PacksFoo][PrivacyType] = 2
    /\ dependents.violation_dependents[PacksFoo][DependencyType] = 1

====
